---- MODULE Spec2Model ----
(***************************************************************************)
(* The MCTS planning engine of src/src/algos/mu_zero/mu_mcts.py: the Node  *)
(* and RootParentNode classes and the MCTS controller with its two caches  *)
(* (lookup_table, state_node_dict).  Every public method is one action; a  *)
(* call that raises is an action whose outcome is the exception, with the  *)
(* state changes made before the raise kept.                               *)
(***************************************************************************)
EXTENDS Integers, Sequences, FiniteSets, TLC

(***************************************************************************)
(* Bounds of the model.                                                    *)
(***************************************************************************)
NumStates == 2
NumActions == 2
NumObs == 3
MaxK == 2
MaxVisits == 3
MaxSims == 1
MaxDynCalls == 2

States == 0 .. (NumStates - 1)
Actions == 0 .. (NumActions - 1)
Observations == 0 .. (NumObs - 1)
Pairs == States \X Actions

(***************************************************************************)
(* Numbers.  numpy floats are modelled as exact extended rationals <<n,d>>:*)
(* d > 0 is the finite value n/d in lowest terms, <<1,0>> is +inf,         *)
(* <<-1,0>> is -inf and <<0,0>> is nan.  Rounding and the sign of zero are *)
(* not modelled; division by zero gives inf or nan as numpy does (a        *)
(* RuntimeWarning, no exception).                                          *)
(***************************************************************************)
Sign(n) == IF n > 0 THEN 1 ELSE IF n < 0 THEN -1 ELSE 0

Abs(n) == IF n < 0 THEN -n ELSE n

RECURSIVE GCD(_, _)
GCD(a, b) == IF b = 0 THEN a ELSE GCD(b, a % b)

Norm(n, d) ==
    IF d = 0 THEN <<Sign(n), 0>>
    ELSE LET g == GCD(Abs(n), Abs(d))
         IN  <<(Sign(d) * n) \div g, (Sign(d) * d) \div g>>

Num(i) == <<i, 1>>
Zero == <<0, 1>>
One == <<1, 1>>
NaN == <<0, 0>>
PosInf == <<1, 0>>
NegInf == <<-1, 0>>

IsNaN(x) == x = NaN
IsFinite(x) == x[2] > 0

Add(x, y) ==
    IF x[2] = 0 /\ y[2] = 0 THEN (IF x = y THEN x ELSE NaN)
    ELSE Norm(x[1] * y[2] + y[1] * x[2], x[2] * y[2])

Neg(x) == <<-x[1], x[2]>>
Sub(x, y) == Add(x, Neg(y))
Mul(x, y) == Norm(x[1] * y[1], x[2] * y[2])
Recip(y) == IF y[1] < 0 THEN <<-y[2], -y[1]>> ELSE <<y[2], y[1]>>
Div(x, y) == Mul(x, Recip(y))
Less(x, y) == x[1] * y[2] < y[1] * x[2]
Leq(x, y) == x = y \/ Less(x, y)

RECURSIVE Pow(_, _)
Pow(x, e) == IF e = 0 THEN One ELSE Mul(x, Pow(x, e - 1))

\* np.sum over a vector indexed by Actions
RECURSIVE SumUpTo(_, _)
SumUpTo(v, a) == IF a < 0 THEN 0 ELSE v[a] + SumUpTo(v, a - 1)

RECURSIVE NumSumUpTo(_, _)
NumSumUpTo(v, a) == IF a < 0 THEN Zero ELSE Add(v[a], NumSumUpTo(v, a - 1))

NumSum(v) == NumSumUpTo(v, NumActions - 1)

(***************************************************************************)
(* The model boundary (spec section 6): a fixed, pure, well-formed model.  *)
(***************************************************************************)
representation_function(obs) == obs % NumStates

dynamics_function(s, a) ==
    [reward |-> Num(s + a), state |-> (s + a + 1) % NumStates]

\* prior: action a gets weight a + 1, normalised; value: the state's index
prediction_function(s) ==
    [policy |-> [a \in Actions |->
                    Norm(2 * (a + 1), NumActions * (NumActions + 1))],
     value |-> Num(s)]

(***************************************************************************)
(* Node and RootParentNode.                                                *)
(***************************************************************************)
NoNode == [kind |-> "absent"]

\* Node.__init__
NewNode(state, reward, policy) ==
    [kind |-> "Node",
     q_values |-> [a \in Actions |-> Zero],
     visits |-> [a \in Actions |-> 0],
     reward |-> reward,
     state |-> state,
     policy |-> policy]

\* RootParentNode.__init__ : does not call Node.__init__, sets neither
\* reward nor policy
NewRootParentNode(initial_state) ==
    [kind |-> "RootParentNode",
     q_values |-> [a \in Actions |-> Zero],
     visits |-> [a \in Actions |-> 0],
     state |-> initial_state]

get_total_visits(node) == SumUpTo(node.visits, NumActions - 1)

\* a mutant of update: the running mean is stored without the rescaling
update_without_rescale(node, gain, action_index, min_q, max_q) ==
    LET n_a == Num(node.visits[action_index])
        q_old == node.q_values[action_index]
        q_mean == Div(Add(Mul(n_a, q_old), gain), Add(n_a, One))
    IN  [node EXCEPT !.q_values[action_index] = q_mean,
                     !.visits[action_index] = @ + 1]

\* Node.update
update(node, gain, action_index, min_q, max_q) ==
    LET n_a == Num(node.visits[action_index])
        q_old == node.q_values[action_index]
        q_mean == Div(Add(Mul(n_a, q_old), gain), Add(n_a, One))
        q_val == Div(Sub(q_mean, min_q), Sub(max_q, min_q))
    IN  [node EXCEPT !.q_values[action_index] = q_val,
                     !.visits[action_index] = @ + 1]

\* a mutant of action_distribution: normalised by the largest count
action_distribution_by_max(node) ==
    LET top == CHOOSE m \in {node.visits[a] : a \in Actions} :
                   \A a \in Actions : node.visits[a] <= m
    IN  [a \in Actions |-> Div(Num(node.visits[a]), Num(top))]

\* a mutant of action_distribution: an unvisited node gives zeros
action_distribution_zero_filled(node) ==
    LET total == Num(get_total_visits(node))
    IN  [a \in Actions |->
            IF total = Zero THEN Zero ELSE Div(Num(node.visits[a]), total)]

\* Node.action_distribution
action_distribution(node) ==
    LET total == Num(get_total_visits(node))
    IN  [a \in Actions |-> Div(Num(node.visits[a]), total)]

(***************************************************************************)
(* MCTS: the controller's pure parts.  A call's result is a record; its    *)
(* field raised names the exception the call ends with ("none": it         *)
(* returned).                                                              *)
(***************************************************************************)
\* a mutant of KSimsAccepted: the assertion off by one
KSimsAcceptedFromOne(k_sims) == k_sims > 0

\* MCTS.__init__ line 73: assert self.k > 1
KSimsAccepted(k_sims) == k_sims > 1

EmptyLookupTable == [p \in Pairs |-> [present |-> FALSE]]
EmptyStateNodeDict == [s \in States |-> NoNode]

\* floor(sqrt(n))
ISqrt(n) == CHOOSE r \in 0 .. n : r * r <= n /\ (r + 1) * (r + 1) > n

\* term * sqrt(total_visits) of get_action, for c1 = 5/4 and a large c2 (the
\* logarithms cancel to under 1/1000), the square root to two decimals; it
\* is exactly 0 at total_visits = 0
Explore(total_visits) == Norm(5 * ISqrt(total_visits * 10000), 400)

\* np.argmax: the first nan if there is one, else the first maximal entry
ArgMax(values) ==
    LET top(a) == IF \E b \in Actions : IsNaN(values[b])
                  THEN IsNaN(values[a])
                  ELSE \A b \in Actions : ~Less(values[a], values[b])
    IN  CHOOSE a \in Actions : top(a) /\ \A b \in 0 .. (a - 1) : ~top(b)

\* the score of action a at line 82, for a node that has a policy
puct_score(node, a) ==
    Add(node.q_values[a],
        Div(Mul(node.policy[a], Explore(get_total_visits(node))),
            Num(1 + node.visits[a])))

\* MCTS.get_action: node.policy is read at line 82
get_action(node) ==
    IF "policy" \notin DOMAIN node
    THEN [raised |-> "AttributeError"]
    ELSE LET total_visits == get_total_visits(node)
             values == [a \in Actions |->
                          Add(node.q_values[a],
                              Div(Mul(node.policy[a], Explore(total_visits)),
                                  Num(1 + node.visits[a])))]
         IN  [raised |-> "none", action |-> ArgMax(values)]

\* a mutant of lookup: the cache is never consulted
lookup_uncached(table, state, action) ==
    LET d == dynamics_function(state, action)
    IN  [lookup_table |->
             [table EXCEPT ![<<state, action>>] =
                 [present |-> TRUE, new_state |-> d.state,
                  reward |-> d.reward]],
         called |-> TRUE, hit |-> FALSE,
         ret |-> [none |-> TRUE]]

\* MCTS.lookup: a hit returns the cached pair; a miss calls the dynamics
\* function, caches the pair and falls off the end (returns None)
lookup(table, state, action) ==
    IF table[<<state, action>>].present
    THEN [lookup_table |-> table, called |-> FALSE, hit |-> TRUE,
          ret |-> [new_state |-> table[<<state, action>>].new_state,
                   reward |-> table[<<state, action>>].reward]]
    ELSE LET d == dynamics_function(state, action)
         IN  [lookup_table |->
                  [table EXCEPT ![<<state, action>>] =
                      [present |-> TRUE, new_state |-> d.state,
                       reward |-> d.reward]],
              called |-> TRUE, hit |-> FALSE,
              ret |-> [none |-> TRUE]]

\* MCTS.state_to_node
state_to_node(dict, state, reward) ==
    IF dict[state] # NoNode
    THEN [state_node_dict |-> dict, node |-> dict[state], created |-> FALSE]
    ELSE LET new_node ==
                 NewNode(state, reward, prediction_function(state).policy)
         IN  [state_node_dict |-> [dict EXCEPT ![state] = new_node],
              node |-> new_node, created |-> TRUE]

\* a mutant of reset_nodes: only the node table is cleared
reset_nodes_keeps_transitions(table, dict) ==
    [lookup_table |-> table, state_node_dict |-> EmptyStateNodeDict]

\* MCTS.reset_nodes
reset_nodes(table, dict) ==
    [lookup_table |-> EmptyLookupTable, state_node_dict |-> EmptyStateNodeDict]

\* MCTS.compute_gain; rewards is a sequence, Python's rewards[j] is
\* rewards[j + 1] here, and rewards[i + 1:] is empty past the end
Gamma == <<1, 2>>

RECURSIVE DiscountedFrom(_, _, _)
DiscountedFrom(rewards, j, e) ==
    IF j > Len(rewards) THEN Zero
    ELSE Add(Mul(rewards[j], Pow(Gamma, e)),
             DiscountedFrom(rewards, j + 1, e + 1))

compute_gain(rewards, v_l, i, l) ==
    Add(Mul(Pow(Gamma, l - i), v_l), DiscountedFrom(rewards, i + 2, 0))

\* MCTS.backup, from step i down to 1; states[i - 1] of Python is
\* states[i] here.  Returns the node table and the gains, latest first.
RECURSIVE backup_from(_, _, _, _, _, _, _, _)
backup_from(dict, states, rewards, v_l, i, k, min_q, max_q) ==
    IF i < 1 THEN [state_node_dict |-> dict, gains |-> <<>>]
    ELSE LET g_i == compute_gain(rewards, v_l, i, k)
             s_i_1 == states[i][1]
             a_i == states[i][2]
             stn == state_to_node(dict, s_i_1, rewards[i])
             upd == update(stn.node, g_i, a_i, min_q, max_q)
             rest == backup_from(
                         [stn.state_node_dict EXCEPT ![s_i_1] = upd],
                         states, rewards, v_l, i - 1, k, min_q, max_q)
         IN  [state_node_dict |-> rest.state_node_dict,
              gains |-> <<g_i>> \o rest.gains]

backup(dict, states, rewards, v_l, k, min_q, max_q) ==
    backup_from(dict, states, rewards, v_l, k, k, min_q, max_q)

\* MCTS.simulation with k > 0: lines 126-146.  The root is registered, then
\* the first pass of the loop ends the call: get_action raises on a node
\* without a policy; a lookup miss returns None, which line 140 cannot
\* unpack; after a hit, line 146 calls min_q(), which no node class defines.
\* Lines 149-159 are never reached.
simulation(table, dict, obs) ==
    LET s0 == representation_function(obs)
        current_node == NewRootParentNode(s0)
        dict1 == [dict EXCEPT ![s0] = current_node]
        act == get_action(current_node)
    IN  IF act.raised # "none"
        THEN [lookup_table |-> table, state_node_dict |-> dict1,
              called |-> {}, raised |-> act.raised, line |-> 137,
              selections |-> 0, expansions |-> 0, updates |-> 0]
        ELSE LET lk == lookup(table, s0, act.action)
                 dyn == IF lk.called THEN {<<s0, act.action>>} ELSE {}
             IN  IF ~lk.hit
                 THEN [lookup_table |-> lk.lookup_table,
                       state_node_dict |-> dict1,
                       called |-> dyn, raised |-> "TypeError", line |-> 140,
                       selections |-> 0, expansions |-> 0, updates |-> 0]
                 ELSE [lookup_table |-> lk.lookup_table,
                       state_node_dict |->
                           state_to_node(dict1, lk.ret.new_state,
                                         lk.ret.reward).state_node_dict,
                       called |-> dyn, raised |-> "AttributeError",
                       line |-> 146,
                       selections |-> 0, expansions |-> 0, updates |-> 0]

\* MCTS.get_root_policy
get_root_policy(dict, obs) ==
    LET s0 == representation_function(obs)
        stn == state_to_node(dict, s0, Zero)
    IN  [state_node_dict |-> stn.state_node_dict,
         ret |-> action_distribution(stn.node)]

(***************************************************************************)
(* State.  constructed, k, lookup_table and state_node_dict are the        *)
(* controller; dynCalls and simCalls count, since the last reset_nodes,    *)
(* the dynamics_function calls per (state, action) and the simulation      *)
(* calls per root state; last is the latest call with its arguments and    *)
(* its outcome.                                                            *)
(***************************************************************************)
VARIABLES constructed, k, lookup_table, state_node_dict, dynCalls, simCalls,
          last

vars == <<constructed, k, lookup_table, state_node_dict, dynCalls, simCalls,
          last>>

\* inputs of the direct calls
Gains == {Num(1), Num(4)}
QRanges == {<<Zero, Zero>>, <<Zero, Num(2)>>}
RewardSeqs == {<<Num(1), Num(2)>>, <<Num(1), Num(2), Num(3)>>}
LeafValues == {Num(4)}
PathsOf(n) == [1 .. n -> Pairs]

RECURSIVE VisitsOver(_, _)
VisitsOver(dict, s) ==
    IF s < 0 THEN 0
    ELSE (IF dict[s] = NoNode THEN 0 ELSE get_total_visits(dict[s]))
         + VisitsOver(dict, s - 1)

AllVisits == VisitsOver(state_node_dict, NumStates - 1)

Init ==
    /\ constructed = "none"
    /\ k = 0
    /\ lookup_table = EmptyLookupTable
    /\ state_node_dict = EmptyStateNodeDict
    /\ dynCalls = [p \in Pairs |-> 0]
    /\ simCalls = [s \in States |-> 0]
    /\ last = [op |-> "none"]

\* MCTS(model, mcts_param, action_length)
Construct(k_sims) ==
    /\ constructed = "none"
    /\ IF KSimsAccepted(k_sims)
       THEN /\ constructed' = "ok"
            /\ k' = k_sims
            /\ last' = [op |-> "__init__", k_sims |-> k_sims,
                        raised |-> "none"]
       ELSE /\ constructed' = "failed"
            /\ k' = k
            /\ last' = [op |-> "__init__", k_sims |-> k_sims,
                        raised |-> "AssertionError"]
    /\ lookup_table' = EmptyLookupTable
    /\ state_node_dict' = EmptyStateNodeDict
    /\ UNCHANGED <<dynCalls, simCalls>>

\* mcts.lookup(state, action)
Lookup(state, action) ==
    /\ constructed = "ok"
    /\ dynCalls[<<state, action>>] < MaxDynCalls
    /\ LET r == lookup(lookup_table, state, action)
       IN  /\ lookup_table' = r.lookup_table
           /\ dynCalls' = IF r.called
                          THEN [dynCalls EXCEPT ![<<state, action>>] = @ + 1]
                          ELSE dynCalls
           /\ last' = [op |-> "lookup", state |-> state, action |-> action,
                       hit |-> r.hit, called |-> r.called, ret |-> r.ret,
                       afterReset |-> last.op = "reset_nodes",
                       dropped |-> last.op = "reset_nodes"
                                   /\ <<state, action>> \in last.pairs]
    /\ UNCHANGED <<constructed, k, state_node_dict, simCalls>>

\* mcts.state_to_node(state)
StateToNode(state) ==
    /\ constructed = "ok"
    /\ LET r == state_to_node(state_node_dict, state, Zero)
       IN  /\ state_node_dict' = r.state_node_dict
           /\ last' = [op |-> "state_to_node", state |-> state,
                       created |-> r.created, node |-> r.node,
                       afterReset |-> last.op = "reset_nodes",
                       dropped |-> last.op = "reset_nodes"
                                   /\ state \in last.nodes]
    /\ UNCHANGED <<constructed, k, lookup_table, dynCalls, simCalls>>

\* mcts.reset_nodes()
ResetNodes ==
    /\ constructed = "ok"
    /\ LET r == reset_nodes(lookup_table, state_node_dict)
       IN  /\ lookup_table' = r.lookup_table
           /\ state_node_dict' = r.state_node_dict
    /\ dynCalls' = [p \in Pairs |-> 0]
    /\ simCalls' = [s \in States |-> 0]
    /\ last' = [op |-> "reset_nodes",
                pairs |-> {p \in Pairs : lookup_table[p].present},
                nodes |-> {s \in States : state_node_dict[s] # NoNode}]
    /\ UNCHANGED <<constructed, k>>

\* node.update(gain, action, min_q, max_q) on the node registered for state
NodeUpdate(state, gain, action, range) ==
    /\ constructed = "ok"
    /\ state_node_dict[state] # NoNode
    /\ AllVisits < MaxVisits
    /\ LET node == state_node_dict[state]
           after == update(node, gain, action, range[1], range[2])
       IN  /\ state_node_dict' = [state_node_dict EXCEPT ![state] = after]
           /\ last' = [op |-> "update", state |-> state, action |-> action,
                       gain |-> gain, min_q |-> range[1], max_q |-> range[2],
                       before |-> node, after |-> after, raised |-> "none"]
    /\ UNCHANGED <<constructed, k, lookup_table, dynCalls, simCalls>>

\* mcts.backup(states, rewards, v_l, k, min_q, max_q) with the controller's k
Backup(states, rewards, v_l, range) ==
    /\ constructed = "ok"
    /\ Len(rewards) >= k
    /\ AllVisits + k <= MaxVisits
    /\ LET r == backup(state_node_dict, states, rewards, v_l, k,
                       range[1], range[2])
       IN  /\ state_node_dict' = r.state_node_dict
           /\ last' = [op |-> "backup", states |-> states,
                       rewards |-> rewards, v_l |-> v_l, k |-> k,
                       min_q |-> range[1], max_q |-> range[2],
                       gains |-> r.gains]
    /\ UNCHANGED <<constructed, k, lookup_table, dynCalls, simCalls>>

\* mcts.get_root_policy(obs)
GetRootPolicy(obs) ==
    /\ constructed = "ok"
    /\ LET r == get_root_policy(state_node_dict, obs)
           s0 == representation_function(obs)
       IN  /\ state_node_dict' = r.state_node_dict
           /\ last' = [op |-> "get_root_policy", obs |-> obs,
                       node |-> r.state_node_dict[s0],
                       ret |-> r.ret, raised |-> "none"]
    /\ UNCHANGED <<constructed, k, lookup_table, dynCalls, simCalls>>

\* mcts.simulation(obs)
Simulation(obs) ==
    /\ constructed = "ok"
    /\ simCalls[representation_function(obs)] < MaxSims
    /\ LET r == simulation(lookup_table, state_node_dict, obs)
           s0 == representation_function(obs)
       IN  /\ lookup_table' = r.lookup_table
           /\ state_node_dict' = r.state_node_dict
           /\ dynCalls' = [p \in Pairs |->
                              dynCalls[p] + (IF p \in r.called THEN 1 ELSE 0)]
           /\ simCalls' = [simCalls EXCEPT ![s0] = @ + 1]
           /\ last' = [op |-> "simulation", obs |-> obs, s0 |-> s0,
                       raised |-> r.raised, line |-> r.line,
                       selections |-> r.selections,
                       expansions |-> r.expansions, updates |-> r.updates]
    /\ UNCHANGED <<constructed, k>>

(***************************************************************************)
(* Spec: the controller's methods (construction, the two caches, the root  *)
(* policy, simulation).  SpecNode: the node statistics (update, backup,    *)
(* the root policy) with the node table, without direct lookups.           *)
(***************************************************************************)
Next ==
    \/ \E k_sims \in 0 .. MaxK : Construct(k_sims)
    \/ \E p \in Pairs : Lookup(p[1], p[2])
    \/ \E s \in States : StateToNode(s)
    \/ ResetNodes
    \/ \E obs \in Observations : GetRootPolicy(obs)
    \/ \E obs \in Observations : Simulation(obs)

Spec == Init /\ [][Next]_vars

NextNode ==
    \/ \E k_sims \in 0 .. MaxK : Construct(k_sims)
    \/ \E s \in States : StateToNode(s)
    \/ ResetNodes
    \/ \E s \in States, g \in Gains, a \in Actions, r \in QRanges :
          NodeUpdate(s, g, a, r)
    \/ \E states \in PathsOf(k), rewards \in RewardSeqs, v_l \in LeafValues,
          r \in QRanges : Backup(states, rewards, v_l, r)
    \/ \E obs \in Observations : GetRootPolicy(obs)
    \/ \E obs \in Observations : Simulation(obs)

SpecNode == Init /\ [][NextNode]_vars

\* mcts.get_action(node) on the node registered for state
GetAction(state) ==
    /\ constructed = "ok"
    /\ state_node_dict[state] # NoNode
    /\ LET node == state_node_dict[state]
           r == get_action(node)
       IN  last' = IF r.raised = "none"
                   THEN [op |-> "get_action", state |-> state, node |-> node,
                         raised |-> "none", action |-> r.action]
                   ELSE [op |-> "get_action", state |-> state, node |-> node,
                         raised |-> r.raised]
    /\ UNCHANGED <<constructed, k, lookup_table, state_node_dict, dynCalls,
                   simCalls>>

\* SpecSelect: action selection on the registered nodes, whose statistics
\* come from update
NextSelect ==
    \/ \E k_sims \in 0 .. MaxK : Construct(k_sims)
    \/ \E s \in States : StateToNode(s)
    \/ ResetNodes
    \/ \E s \in States, g \in Gains, a \in Actions, r \in QRanges :
          NodeUpdate(s, g, a, r)
    \/ \E obs \in Observations : Simulation(obs)
    \/ \E s \in States : GetAction(s)

SpecSelect == Init /\ [][NextSelect]_vars

(***************************************************************************)
(* Properties.                                                             *)
(***************************************************************************)
Registered(s) == state_node_dict[s] # NoNode

C2_RootVisitsCountSimulations ==
    last.op = "simulation" =>
        get_total_visits(state_node_dict[last.s0]) = simCalls[last.s0]

\* C4: after reset_nodes both caches are empty; a lookup that follows is a
\* miss that calls the dynamics function, and a state_to_node that follows
\* creates a node with all visit counts and Q-values 0.
C4_ResetLeavesNothing ==
    /\ last.op = "reset_nodes" =>
           /\ lookup_table = EmptyLookupTable
           /\ state_node_dict = EmptyStateNodeDict
    /\ (last.op = "lookup" /\ last.afterReset) =>
           /\ ~last.hit
           /\ last.called
           /\ dynCalls[<<last.state, last.action>>] = 1
    /\ (last.op = "state_to_node" /\ last.afterReset) =>
           /\ last.created
           /\ \A a \in Actions : /\ last.node.visits[a] = 0
                                 /\ last.node.q_values[a] = Zero

\* a pair that was cached before the reset is looked up right after it
C4_Witness == last.op = "lookup" /\ last.afterReset /\ last.dropped

\* C5 (as stated): with k = 2, gamma = 1/2, rewards [1, 2] and v_l = 4 the
\* backup's gains are 4 at step 2 and 4 at step 1.
C5_GainsOfScenario ==
    (/\ last.op = "backup"
     /\ last.k = 2
     /\ last.rewards = <<Num(1), Num(2)>>
     /\ last.v_l = Num(4)) => last.gains = <<Num(4), Num(4)>>

\* C6: for a node with total visits > 0, action_distribution has one entry
\* per action, entry a is visits[a] / total, the entries are non-negative
\* and sum to 1; get_root_policy returns that vector.
C6_DistributionSumsToOne ==
    /\ \A s \in States :
           (Registered(s) /\ get_total_visits(state_node_dict[s]) > 0) =>
               LET node == state_node_dict[s]
                   dist == action_distribution(node)
               IN  /\ DOMAIN dist = Actions
                   /\ \A a \in Actions :
                          /\ IsFinite(dist[a])
                          /\ Leq(Zero, dist[a])
                          /\ Mul(dist[a], Num(get_total_visits(node)))
                                 = Num(node.visits[a])
                   /\ NumSum(dist) = One
    /\ (last.op = "get_root_policy" /\ get_total_visits(last.node) > 0) =>
           /\ last.raised = "none"
           /\ NumSum(last.ret) = One

\* the root policy of a node visited through two different actions
C6_Witness ==
    /\ last.op = "get_root_policy"
    /\ \E a, b \in Actions :
           a # b /\ last.node.visits[a] > 0 /\ last.node.visits[b] > 0
    /\ NumSum(last.ret) = One

\* C7 (as stated): get_root_policy on a root with no visits ends in an
\* InvalidState error instead of returning a vector.
C7_ZeroVisitsRaises ==
    (last.op = "get_root_policy" /\ get_total_visits(last.node) = 0) =>
        last.raised = "InvalidState"

\* C7 (amended): action_distribution on a node with no visits raises
\* nothing and returns a vector whose every entry is nan (0/0);
\* get_root_policy on such a root returns that vector.
C7_ZeroVisitsGiveNaN ==
    /\ \A s \in States :
           (Registered(s) /\ get_total_visits(state_node_dict[s]) = 0) =>
               \A a \in Actions :
                   IsNaN(action_distribution(state_node_dict[s])[a])
    /\ (last.op = "get_root_policy" /\ get_total_visits(last.node) = 0) =>
           /\ last.raised = "none"
           /\ \A a \in Actions : IsNaN(last.ret[a])

\* get_root_policy before any simulation on that root
C7_Witness ==
    /\ last.op = "get_root_policy"
    /\ get_total_visits(last.node) = 0
    /\ simCalls[representation_function(last.obs)] = 0
    /\ \A a \in Actions : IsNaN(last.ret[a])

\* C8 (as stated): update with min_q = max_q raises nothing, leaves the
\* stored Q-value finite and increments the visit count.
C8_DegenerateRangeKeepsQFinite ==
    (last.op = "update" /\ last.min_q = last.max_q) =>
        /\ last.raised = "none"
        /\ IsFinite(last.after.q_values[last.action])
        /\ last.after.visits[last.action]
               = last.before.visits[last.action] + 1

\* C9: construction with k_sims <= 1 fails and leaves no controller;
\* construction with k_sims > 1 succeeds with both caches empty.
C9_ConstructionChecksK ==
    /\ last.op = "__init__" =>
           /\ last.k_sims <= 1 =>
                  constructed = "failed" /\ last.raised = "AssertionError"
           /\ last.k_sims > 1 =>
                  /\ constructed = "ok"
                  /\ last.raised = "none"
                  /\ k = last.k_sims
                  /\ lookup_table = EmptyLookupTable
                  /\ state_node_dict = EmptyStateNodeDict
    /\ constructed = "ok" => k > 1
    /\ constructed = "failed" =>
           last.op = "__init__" /\ last.raised = "AssertionError"

\* construction refused at the boundary k_sims = 1
C9_Witness ==
    constructed = "failed" /\ last.op = "__init__" /\ last.k_sims = 1

\* C10 (as stated): every simulation(obs) call returns without raising,
\* after k selection steps, one leaf expansion and k backup updates.
C10_SimulationCompletes ==
    last.op = "simulation" =>
        /\ last.raised = "none"
        /\ last.selections = k
        /\ last.expansions = 1
        /\ last.updates = k

\* C11: update(gain, a, min_q, max_q) with max_q # min_q, on a node where
\* action a has n visits and value q_old, stores
\* ((n * q_old + gain) / (n + 1) - min_q) / (max_q - min_q) for a, adds
\* exactly 1 to visits[a], and changes nothing else of the node.
C11_UpdateEffectAndFrame ==
    (last.op = "update" /\ last.min_q # last.max_q) =>
        LET a == last.action
            n == last.before.visits[a]
            q_old == last.before.q_values[a]
            q_new == last.after.q_values[a]
            width == Sub(last.max_q, last.min_q)
        IN  /\ last.raised = "none"
            /\ q_new = Div(Sub(Div(Add(Mul(Num(n), q_old), last.gain),
                                   Num(n + 1)),
                               last.min_q),
                           width)
            /\ IsFinite(q_old) =>
                   Mul(Add(Mul(q_new, width), last.min_q), Num(n + 1))
                       = Add(Mul(Num(n), q_old), last.gain)
            /\ last.after.visits[a] = n + 1
            /\ \A b \in Actions \ {a} :
                   /\ last.after.q_values[b] = last.before.q_values[b]
                   /\ last.after.visits[b] = last.before.visits[b]
            /\ DOMAIN last.after = DOMAIN last.before
            /\ \A f \in DOMAIN last.before \ {"q_values", "visits"} :
                   last.after[f] = last.before[f]
            /\ state_node_dict[last.state] = last.after

\* a second update of an action whose stored value is a finite non-zero mean
C11_Witness ==
    /\ last.op = "update"
    /\ last.min_q # last.max_q
    /\ last.before.visits[last.action] > 0
    /\ IsFinite(last.before.q_values[last.action])
    /\ last.before.q_values[last.action] # Zero

\* C12 (as stated): for every node and every action with visits > 0 the
\* stored Q-value lies in [0, 1].
C12_QValuesInUnitInterval ==
    \A s \in States :
        Registered(s) =>
            \A a \in Actions :
                state_node_dict[s].visits[a] > 0 =>
                    /\ Leq(Zero, state_node_dict[s].q_values[a])
                    /\ Leq(state_node_dict[s].q_values[a], One)

\* C12, the same on a non-degenerate range only (min_q < max_q): the value
\* an update stores lies in [0, 1].
C12_QInUnitIntervalOnProperRange ==
    (last.op = "update" /\ Less(last.min_q, last.max_q)) =>
        /\ Leq(Zero, last.after.q_values[last.action])
        /\ Leq(last.after.q_values[last.action], One)

FirstMax(node, a) ==
    /\ \A b \in Actions : ~Less(puct_score(node, a), puct_score(node, b))
    /\ \A b \in 0 .. (a - 1) : Less(puct_score(node, b), puct_score(node, a))

Unvisited(node) ==
    /\ get_total_visits(node) = 0
    /\ \A a \in Actions : node.q_values[a] = Zero

\* C13 (as stated): every get_action call returns an action whose score is
\* maximal and, among the maximal ones, of lowest index; at a node with no
\* visits and all Q-values 0 it returns index 0.
C13_GetActionReturnsFirstMax ==
    last.op = "get_action" =>
        /\ last.raised = "none"
        /\ FirstMax(last.node, last.action)
        /\ Unvisited(last.node) => last.action = 0

\* C13 on the nodes that carry a prior policy (Node, not RootParentNode)
C13_FirstMaxWhereGetActionReturns ==
    (last.op = "get_action" /\ "policy" \in DOMAIN last.node) =>
        /\ last.raised = "none"
        /\ FirstMax(last.node, last.action)
        /\ Unvisited(last.node) => last.action = 0

====
